---- MODULE Spec2Model ----
(***************************************************************************)
(* Model of the Bunnings navigator (automation_agent.py) and of its        *)
(* evaluation harness (agent_evaluation.py).                               *)
(*                                                                         *)
(* One process is modelled.  It is either the command line program         *)
(* (mode "cli": the __main__ block, main() and one run) or the evaluation  *)
(* script (mode "eval": module-level telemetry initialisation, then one    *)
(* executor call and one evaluator call per datapoint).  A run is          *)
(* run_bunnings_navigator, one action per statement.                       *)
(*                                                                         *)
(* Texts on which the code works character by character (provider keys,    *)
(* sys.platform, agent outputs, targets) are sequences of one-character    *)
(* strings; the other request fields are opaque strings.                   *)
(***************************************************************************)
EXTENDS Integers, Sequences, FiniteSets, TLC

VARIABLES
    mode,            \* "cli" or "eval": which script the process executes
    env,             \* os.environ restricted to the three API key variables
    platform,        \* sys.platform
    pc,              \* position of the process
    caseIdx,         \* number of runs started in this process
    request,         \* arguments of the current run_bunnings_navigator call
    target,          \* "target" of the current datapoint (eval mode)
    laminarInits,    \* number of Laminar.initialize calls made by the process
    driversRunning,  \* patchright driver processes started and not stopped
    externalCalls,   \* external steps performed by the current run, in order
    browserProfile,  \* BrowserProfile built by the current run, or NoObject
    browserSession,  \* BrowserSession built by the current run, or NoObject
    llm,             \* LLM client built by the current run, or NoObject
    task,            \* formatted task script of the current run, or <<>>
    agent,           \* Agent built by the current run, or NoObject
    runError,        \* exception raised by the current run, or "none"
    result,          \* value returned by the current run
    execOutcome,     \* outcome of main_executor for the current datapoint
    evalOutcome,     \* outcome of success_evaluator for the current datapoint
    score,           \* {} or the one value success_evaluator returned
    exitCode         \* {} while the process lives, then its one exit status

vars == << mode, env, platform, pc, caseIdx, request, target, laminarInits,
           driversRunning, externalCalls, browserProfile, browserSession, llm,
           task, agent, runError, result, execOutcome, evalOutcome, score,
           exitCode >>

(***************************************************************************)
(* Bounds of the model.                                                    *)
(***************************************************************************)
\* Number of datapoints the evaluation script runs in one process.
MaxCases == 2
\* Longest output and target text enumerated for the evaluator on its own.
MaxLen == 3

(***************************************************************************)
(* Values.                                                                 *)
(***************************************************************************)
\* Python's None for an opaque string field or an environment variable.
None == "<None>"
\* No object constructed.
NoObject == [built |-> FALSE]

\* bool(v) of a str-or-None value: None and "" are falsy.
Truthy(v) == v # None /\ v # ""

\* What str.format writes for a field value: format(None, "") is "None".
FormatValue(v) == IF v = None THEN "None" ELSE v

\* A value returned by a run: None or a text.
NoneResult == [isNone |-> TRUE, text |-> << >>]
Text(s) == [isNone |-> FALSE, text |-> s]

(***************************************************************************)
(* str.lower and str.startswith, character by character.                   *)
(***************************************************************************)
LowerChar(c) ==
    CASE c = "O" -> "o"
      [] c = "A" -> "a"
      [] c = "I" -> "i"
      [] OTHER -> c

Lower(s) == [i \in 1..Len(s) |-> LowerChar(s[i])]

RECURSIVE StartsWithFrom(_, _, _)
StartsWithFrom(s, prefix, i) ==
    IF i > Len(prefix) THEN TRUE
    ELSE IF i > Len(s) THEN FALSE
    ELSE IF s[i] # prefix[i] THEN FALSE
    ELSE StartsWithFrom(s, prefix, i + 1)

StartsWith(s, prefix) == StartsWithFrom(s, prefix, 1)

(***************************************************************************)
(* Texts of the program.                                                   *)
(***************************************************************************)
OPENAI == << "o", "p", "e", "n", "a", "i" >>
OLLAMA == << "o", "l", "l", "a", "m", "a" >>
GOOGLE == << "g", "o", "o", "g", "l", "e" >>
GROQ == << "g", "r", "o", "q" >>

DARWIN == << "d", "a", "r", "w", "i", "n" >>
WIN == << "w", "i", "n" >>
LINUX == << "l", "i", "n", "u", "x" >>

MacBravePath == "/Applications/Brave Browser.app/Contents/MacOS/Brave Browser"
WinBravePath == "C:\\Program Files\\BraveSoftware\\Brave-Browser\\Application\\brave.exe"
LinuxBravePath == "brave-browser"
\* Marks the else branch of the path resolution: no path, RuntimeError.
NoPath == "<RuntimeError>"

DEFAULT_OPENAI_MODEL == "gpt-4.1"
DEFAULT_OLLAMA_MODEL == "llama3.1:8b"
DEFAULT_GOOGLE_MODEL == "gemini-2.0-flash"
DEFAULT_GROQ_MODEL == "meta-llama/llama-4-maverick-17b-128e-instruct"

(***************************************************************************)
(* Inputs.                                                                 *)
(***************************************************************************)
\* Provider keys a caller of run_bunnings_navigator may pass.
Providers ==
    { OPENAI, OLLAMA, GOOGLE, GROQ,
      << "O", "p", "e", "n", "A", "I" >>,
      << "a", "z", "u", "r", "e" >> }

\* argparse choices of --provider.
CliProviders == { OPENAI, OLLAMA, GOOGLE, GROQ }

\* Values of sys.platform.
Platforms ==
    { DARWIN,
      << "w", "i", "n", "3", "2" >>,
      << "l", "i", "n", "u", "x", "2" >>,
      << "c", "y", "g", "w", "i", "n" >>,
      << "f", "r", "e", "e", "b", "s", "d" >> }

EnvKeys == { "OPENAI_API_KEY", "GOOGLE_API_KEY", "GROQ_API_KEY" }
\* os.getenv: None when unset, possibly the empty string.
EnvValues == { None, "", "sk-key" }

Units == { None, "", "Unit 4" }
Postcodes == { None, "", "2000" }
Suburbs == { None, "Sydney" }

Requests(providers) ==
    [ product_name : { "chair" },
      provider : providers,
      street_address : { "123 Fake St" },
      unit : Units,
      suburb_address : Suburbs,
      state : { "NSW" },
      postcode : Postcodes ]

NoRequest ==
    [ product_name |-> None, provider |-> << >>, street_address |-> None,
      unit |-> None, suburb_address |-> None, state |-> None,
      postcode |-> None ]

SUCCESS == << "S", "U", "C", "C", "E", "S", "S" >>
NoTarget == << >>

\* Final texts the agent may report.
AgentOutputs ==
    { SUCCESS,
      << "s", "u", "c", "c", "e", "s", "s" >>,
      << "O", "K", " " >> \o SUCCESS \o << "!" >>,
      << "N", "o", " ", "p", "r", "o", "d", "u", "c", "t", "s" >>,
      << >> }

(***************************************************************************)
(* NAVIGATOR_TASK_TEMPLATE: the literal text between replacement fields is *)
(* abbreviated, the replacement fields are all there, in order.            *)
(***************************************************************************)
Lit(t) == [field |-> "", text |-> t]
Field(n) == [field |-> n, text |-> ""]

NAVIGATOR_TASK_TEMPLATE ==
    << Lit("0. ... 5. In the search bar at the top, enter "),
       Field("product_name"),
       Lit(" and submit. ... 6. find the product tile matching "),
       Field("product_name"),
       Lit(" ... 8b. Type the user's full address (e.g. "),
       Field("street_address"), Lit(", "),
       Field("suburb_address"), Lit(" "),
       Field("state"), Lit(" "),
       Field("postcode"),
       Lit(") ... 8c. - Enter street address: "),
       Field("street_address"),
       Lit(" - Enter unit (if provided): "),
       Field("unit"),
       Lit(" - Enter suburb: "),
       Field("suburb_address"),
       Lit(" - Select state: "),
       Field("state"),
       Lit(" - Enter postcode: "),
       Field("postcode"),
       Lit(" ... 10. enter the user's postcode or suburb: "),
       Field("location"),
       Lit(" in the Search postcode or suburb field ... 16. SUCCESS") >>

\* Replacement fields of a template.
TemplateFields(template) ==
    { template[i].field : i \in { j \in 1..Len(template) : template[j].field # "" } }

\* str.format(**kwargs) raises KeyError for a field kwargs does not name.
FormatRaises(template, kwargs) ==
    \E f \in TemplateFields(template) : f \notin DOMAIN kwargs

\* str.format(**kwargs): the pieces of the formatted text, one per piece of the
\* template.
Format(template, kwargs) ==
    [ i \in 1..Len(template) |->
        IF template[i].field = "" THEN template[i].text
        ELSE FormatValue(kwargs[template[i].field]) ]

\* The preference reversed: suburb first, postcode as the fallback.
LocationValue_SuburbFirst(postcode, suburb_address) ==
    IF Truthy(suburb_address) THEN suburb_address ELSE postcode

\* location_value = postcode if postcode else suburb_address
LocationValue(postcode, suburb_address) ==
    IF Truthy(postcode) THEN postcode ELSE suburb_address

\* The `or ""` dropped: unit passed to format as it came.
UnitValue_Raw(unit) == unit

\* unit or ""
UnitValue(unit) == IF Truthy(unit) THEN unit ELSE ""

\* Keyword arguments of NAVIGATOR_TASK_TEMPLATE.format(...).
FormatKwargs(req) ==
    [ product_name |-> req.product_name,
      location |-> LocationValue(req.postcode, req.suburb_address),
      street_address |-> req.street_address,
      unit |-> UnitValue(req.unit),
      suburb_address |-> req.suburb_address,
      state |-> req.state,
      postcode |-> req.postcode ]

(***************************************************************************)
(* create_browser_session: resolution of the Brave executable.             *)
(***************************************************************************)
\* The else branch falling back to the PATH lookup instead of raising.
BravePath_SilentDefault(p) ==
    IF StartsWith(p, DARWIN) THEN MacBravePath
    ELSE IF StartsWith(p, WIN) THEN WinBravePath
    ELSE LinuxBravePath

BravePath(p) ==
    IF StartsWith(p, DARWIN) THEN MacBravePath
    ELSE IF StartsWith(p, WIN) THEN WinBravePath
    ELSE IF StartsWith(p, LINUX) THEN LinuxBravePath
    ELSE NoPath

BrowserProfile(path) ==
    [ built |-> TRUE, headless |-> FALSE, stealth |-> TRUE, keep_alive |-> TRUE,
      allowed_domains |-> { "*.bunnings.com.au" }, executable_path |-> path,
      disable_security |-> FALSE, user_data_dir |-> None,
      deterministic_rendering |-> FALSE ]

BrowserSession(profile, path, playwright) ==
    [ built |-> TRUE, playwright |-> playwright, browser_profile |-> profile,
      browser_path |-> path ]

(***************************************************************************)
(* get_llm: the exception it raises, or the LLM client it returns.          *)
(***************************************************************************)
Raise(e) == [raises |-> e, client |-> NoObject]
Return(c) == [raises |-> "none", client |-> c]

ChatClient(class, model, key) ==
    [ built |-> TRUE, class |-> class, model |-> model, api_key |-> key,
      temperature |-> "0.1" ]

get_llm(provider, environ) ==
    LET p == Lower(provider) IN
    IF p = OPENAI THEN
        IF ~Truthy(environ["OPENAI_API_KEY"]) THEN Raise("EnvironmentError")
        ELSE Return(ChatClient("ChatOpenAI", DEFAULT_OPENAI_MODEL,
                               environ["OPENAI_API_KEY"]))
    ELSE IF p = OLLAMA THEN
        Return(ChatClient("ChatOllama", DEFAULT_OLLAMA_MODEL, None))
    ELSE IF p = GOOGLE THEN
        IF ~Truthy(environ["GOOGLE_API_KEY"]) THEN Raise("EnvironmentError")
        ELSE Return(ChatClient("ChatGoogle", DEFAULT_GOOGLE_MODEL,
                               environ["GOOGLE_API_KEY"]))
    ELSE IF p = GROQ THEN
        IF ~Truthy(environ["GROQ_API_KEY"]) THEN Raise("EnvironmentError")
        ELSE Return(ChatClient("ChatGroq", DEFAULT_GROQ_MODEL,
                               environ["GROQ_API_KEY"]))
    ELSE Raise("ValueError")

(***************************************************************************)
(* success_evaluator: `target in output`, a scan for the first offset at   *)
(* which target occurs in output.                                          *)
(***************************************************************************)
RECURSIVE MatchAt(_, _, _, _)
MatchAt(output, tgt, off, k) ==
    IF k > Len(tgt) THEN TRUE
    ELSE IF output[off + k] # tgt[k] THEN FALSE
    ELSE MatchAt(output, tgt, off, k + 1)

RECURSIVE Find(_, _, _)
Find(output, tgt, off) ==
    IF off + Len(tgt) > Len(output) THEN FALSE
    ELSE IF MatchAt(output, tgt, off, 1) THEN TRUE
    ELSE Find(output, tgt, off + 1)

Contains(output, tgt) == Find(output, tgt, 0)

\* `target == output` in place of `target in output`.
success_evaluator_Equality(output, tgt) == IF output = tgt THEN 1 ELSE 0

success_evaluator(output, tgt) == IF Contains(output, tgt) THEN 1 ELSE 0

(***************************************************************************)
(* The process.                                                            *)
(***************************************************************************)
max_actions_per_step == 5

\* Targets of the datapoints handed to evaluate().
Targets == { SUCCESS }

Init ==
    /\ mode \in { "cli", "eval" }
    /\ env \in [EnvKeys -> EnvValues]
    /\ platform \in Platforms
    /\ pc = "boot"
    /\ caseIdx = 0
    /\ request = NoRequest
    /\ target = NoTarget
    /\ laminarInits = 0
    /\ driversRunning = 0
    /\ externalCalls = << >>
    /\ browserProfile = NoObject
    /\ browserSession = NoObject
    /\ llm = NoObject
    /\ task = << >>
    /\ agent = NoObject
    /\ runError = "none"
    /\ result = NoneResult
    /\ execOutcome = "pending"
    /\ evalOutcome = "pending"
    /\ score = {}
    /\ exitCode = {}

\* Entry of run_bunnings_navigator(**req): nothing of the run exists yet.
EnterRun(req) ==
    /\ request' = req
    /\ caseIdx' = caseIdx + 1
    /\ externalCalls' = << >>
    /\ browserProfile' = NoObject
    /\ browserSession' = NoObject
    /\ llm' = NoObject
    /\ task' = << >>
    /\ agent' = NoObject
    /\ runError' = "none"
    /\ result' = NoneResult
    /\ execOutcome' = "pending"
    /\ evalOutcome' = "pending"
    /\ score' = {}
    /\ pc' = "laminar"

\* __main__: load_dotenv(), then main() parses the arguments and calls
\* asyncio.run(run_bunnings_navigator(...)).
CliMain ==
    /\ mode = "cli"
    /\ pc = "boot"
    /\ \E req \in Requests(CliProviders) : EnterRun(req)
    /\ UNCHANGED << mode, env, platform, target, laminarInits, driversRunning,
                    exitCode >>

\* agent_evaluation.py, module level: load_dotenv(), Laminar.initialize(...).
EvalModuleInit ==
    /\ mode = "eval"
    /\ pc = "boot"
    /\ laminarInits' = laminarInits + 1
    /\ pc' = "next_case"
    /\ UNCHANGED << mode, env, platform, caseIdx, request, target,
                    driversRunning, externalCalls, browserProfile,
                    browserSession, llm, task, agent, runError, result,
                    execOutcome, evalOutcome, score, exitCode >>

\* evaluate() calls main_executor(data) for the next datapoint, which calls
\* run_bunnings_navigator(**data).
MainExecutor ==
    /\ mode = "eval"
    /\ pc = "next_case"
    /\ caseIdx < MaxCases
    /\ \E req \in Requests(Providers) : EnterRun(req)
    /\ target' \in Targets
    /\ UNCHANGED << mode, env, platform, laminarInits, driversRunning,
                    exitCode >>

\* Laminar.initialize(...) at the head of the run.
LaminarInitialize ==
    /\ pc = "laminar"
    /\ laminarInits' = laminarInits + 1
    /\ externalCalls' = Append(externalCalls, "Laminar.initialize")
    /\ pc' = "patchright"
    /\ UNCHANGED << mode, env, platform, caseIdx, request, target,
                    driversRunning, browserProfile, browserSession, llm, task,
                    agent, runError, result, execOutcome, evalOutcome, score,
                    exitCode >>

\* patchright = await async_patchright().start(): a driver process starts.
PatchrightStart ==
    /\ pc = "patchright"
    /\ driversRunning' = driversRunning + 1
    /\ externalCalls' = Append(externalCalls, "async_patchright.start")
    /\ pc' = "session"
    /\ UNCHANGED << mode, env, platform, caseIdx, request, target,
                    laminarInits, browserProfile, browserSession, llm, task,
                    agent, runError, result, execOutcome, evalOutcome, score,
                    exitCode >>

\* browser_session = create_browser_session();
\* browser_session.playwright = patchright
CreateBrowserSession ==
    /\ pc = "session"
    /\ LET brave_path == BravePath(platform) IN
       IF brave_path = NoPath
       THEN /\ runError' = "RuntimeError"
            /\ pc' = "raised"
            /\ UNCHANGED << browserProfile, browserSession, externalCalls >>
       ELSE /\ browserProfile' = BrowserProfile(brave_path)
            /\ browserSession' =
                   BrowserSession(BrowserProfile(brave_path), brave_path,
                                  "patchright")
            /\ externalCalls' = Append(externalCalls, "BrowserSession")
            /\ pc' = "llm"
            /\ UNCHANGED runError
    /\ UNCHANGED << mode, env, platform, caseIdx, request, target,
                    laminarInits, driversRunning, llm, task, agent, result,
                    execOutcome, evalOutcome, score, exitCode >>

\* llm = get_llm(provider)
GetLlm ==
    /\ pc = "llm"
    /\ LET got == get_llm(request.provider, env) IN
       IF got.raises # "none"
       THEN /\ runError' = got.raises
            /\ pc' = "raised"
            /\ UNCHANGED << llm, externalCalls >>
       ELSE /\ llm' = got.client
            /\ externalCalls' = Append(externalCalls, got.client.class)
            /\ pc' = "format"
            /\ UNCHANGED runError
    /\ UNCHANGED << mode, env, platform, caseIdx, request, target,
                    laminarInits, driversRunning, browserProfile,
                    browserSession, task, agent, result, execOutcome,
                    evalOutcome, score, exitCode >>

\* location_value = ...; task = NAVIGATOR_TASK_TEMPLATE.format(...)
FormatTask ==
    /\ pc = "format"
    /\ LET kwargs == FormatKwargs(request) IN
       IF FormatRaises(NAVIGATOR_TASK_TEMPLATE, kwargs)
       THEN /\ runError' = "KeyError"
            /\ pc' = "raised"
            /\ UNCHANGED task
       ELSE /\ task' = Format(NAVIGATOR_TASK_TEMPLATE, kwargs)
            /\ pc' = "agent"
            /\ UNCHANGED runError
    /\ UNCHANGED << mode, env, platform, caseIdx, request, target,
                    laminarInits, driversRunning, externalCalls,
                    browserProfile, browserSession, llm, agent, result,
                    execOutcome, evalOutcome, score, exitCode >>

\* agent = Agent(task=task, llm=llm, browser_session=browser_session,
\*               max_actions_per_step=5)
ConstructAgent ==
    /\ pc = "agent"
    /\ agent' = [ built |-> TRUE, task |-> task, llm |-> llm,
                  browser_session |-> browserSession,
                  max_actions_per_step |-> max_actions_per_step ]
    /\ pc' = "run"
    /\ UNCHANGED << mode, env, platform, caseIdx, request, target,
                    laminarInits, driversRunning, externalCalls,
                    browserProfile, browserSession, llm, task, runError,
                    result, execOutcome, evalOutcome, score, exitCode >>

\* result = await agent.run(max_steps=50); return result.final_result():
\* the agent ends with a final text, or without one (None).
AgentRunReturns ==
    /\ pc = "run"
    /\ result' \in { NoneResult } \cup { Text(o) : o \in AgentOutputs }
    /\ externalCalls' = Append(externalCalls, "Agent.run")
    /\ pc' = "returned"
    /\ UNCHANGED << mode, env, platform, caseIdx, request, target,
                    laminarInits, driversRunning, browserProfile,
                    browserSession, llm, task, agent, runError, execOutcome,
                    evalOutcome, score, exitCode >>

\* await agent.run(max_steps=50) raises an exception of the framework.
AgentRunRaises ==
    /\ pc = "run"
    /\ runError' = "AgentError"
    /\ externalCalls' = Append(externalCalls, "Agent.run")
    /\ pc' = "raised"
    /\ UNCHANGED << mode, env, platform, caseIdx, request, target,
                    laminarInits, driversRunning, browserProfile,
                    browserSession, llm, task, agent, result, execOutcome,
                    evalOutcome, score, exitCode >>

\* The awaited agent.run is cancelled: Ctrl-C on the command line, a cancelled
\* task under the evaluation harness.
AgentRunCancelled ==
    /\ pc = "run"
    /\ runError' = IF mode = "cli" THEN "KeyboardInterrupt" ELSE "CancelledError"
    /\ externalCalls' = Append(externalCalls, "Agent.run")
    /\ pc' = "raised"
    /\ UNCHANGED << mode, env, platform, caseIdx, request, target,
                    laminarInits, driversRunning, browserProfile,
                    browserSession, llm, task, agent, result, execOutcome,
                    evalOutcome, score, exitCode >>

\* main(): the try block returns result_text to the __main__ block, whose
\* asyncio.run(main()) is then handed that value, not a coroutine, and raises
\* ValueError; nothing catches it and the interpreter exits with status 1.
MainReturns ==
    /\ mode = "cli"
    /\ pc = "returned"
    /\ exitCode' = { 1 }
    /\ pc' = "exited"
    /\ UNCHANGED << mode, env, platform, caseIdx, request, target,
                    laminarInits, driversRunning, externalCalls,
                    browserProfile, browserSession, llm, task, agent,
                    runError, result, execOutcome, evalOutcome, score >>

\* main(): except KeyboardInterrupt: ... sys.exit(1)
MainKeyboardInterrupt ==
    /\ mode = "cli"
    /\ pc = "raised"
    /\ runError = "KeyboardInterrupt"
    /\ exitCode' = { 1 }
    /\ pc' = "exited"
    /\ UNCHANGED << mode, env, platform, caseIdx, request, target,
                    laminarInits, driversRunning, externalCalls,
                    browserProfile, browserSession, llm, task, agent,
                    runError, result, execOutcome, evalOutcome, score >>

\* main(): except Exception: ... sys.exit(1)
MainException ==
    /\ mode = "cli"
    /\ pc = "raised"
    /\ runError # "KeyboardInterrupt"
    /\ exitCode' = { 1 }
    /\ pc' = "exited"
    /\ UNCHANGED << mode, env, platform, caseIdx, request, target,
                    laminarInits, driversRunning, externalCalls,
                    browserProfile, browserSession, llm, task, agent,
                    runError, result, execOutcome, evalOutcome, score >>

\* The frame of run_bunnings_navigator is left: its arguments and locals are
\* gone.  The patchright driver it started is a process, not a local.
LeaveRun ==
    /\ request' = NoRequest
    /\ externalCalls' = << >>
    /\ browserProfile' = NoObject
    /\ browserSession' = NoObject
    /\ llm' = NoObject
    /\ task' = << >>
    /\ agent' = NoObject

\* main_executor: return await run_bunnings_navigator(**data), the run returned
\* and its value is the output handed to the evaluators.
ExecutorReturns ==
    /\ mode = "eval"
    /\ pc = "returned"
    /\ LeaveRun
    /\ execOutcome' = "returned"
    /\ pc' = "evaluate"
    /\ UNCHANGED << mode, env, platform, caseIdx, target, laminarInits,
                    driversRunning, runError, result, evalOutcome, score,
                    exitCode >>

\* main_executor: the run raised; main_executor has no handler, the exception
\* leaves it and no output exists for success_evaluator.
ExecutorRaises ==
    /\ mode = "eval"
    /\ pc = "raised"
    /\ LeaveRun
    /\ execOutcome' = "raised"
    /\ pc' = "next_case"
    /\ UNCHANGED << mode, env, platform, caseIdx, target, laminarInits,
                    driversRunning, runError, result, evalOutcome, score,
                    exitCode >>

\* success_evaluator(output, target): `target in None` raises TypeError.
SuccessEvaluator ==
    /\ mode = "eval"
    /\ pc = "evaluate"
    /\ IF result.isNone
       THEN /\ evalOutcome' = "raised"
            /\ UNCHANGED score
       ELSE /\ evalOutcome' = "scored"
            /\ score' = { success_evaluator(result.text, target) }
    /\ pc' = "next_case"
    /\ UNCHANGED << mode, env, platform, caseIdx, request, target,
                    laminarInits, driversRunning, externalCalls,
                    browserProfile, browserSession, llm, task, agent,
                    runError, result, execOutcome, exitCode >>

Next ==
    \/ CliMain
    \/ EvalModuleInit
    \/ MainExecutor
    \/ LaminarInitialize
    \/ PatchrightStart
    \/ CreateBrowserSession
    \/ GetLlm
    \/ FormatTask
    \/ ConstructAgent
    \/ AgentRunReturns
    \/ AgentRunRaises
    \/ AgentRunCancelled
    \/ MainReturns
    \/ MainKeyboardInterrupt
    \/ MainException
    \/ ExecutorReturns
    \/ ExecutorRaises
    \/ SuccessEvaluator

Spec == Init /\ [][Next]_vars

(***************************************************************************)
(* The evaluator on its own: the harness stands before the call of         *)
(* success_evaluator with an arbitrary output text and an arbitrary target.*)
(***************************************************************************)
EvalAlphabet == { "S", "s", "U" }

TextsUpTo(n) == UNION { [1..k -> EvalAlphabet] : k \in 0..n }

InitEvaluator ==
    /\ mode = "eval"
    /\ env = [k \in EnvKeys |-> "sk-key"]
    /\ platform = LINUX
    /\ pc = "evaluate"
    /\ caseIdx = 1
    /\ request = NoRequest
    /\ target \in TextsUpTo(MaxLen)
    /\ laminarInits = 2
    /\ driversRunning = 1
    /\ externalCalls = << >>
    /\ browserProfile = NoObject
    /\ browserSession = NoObject
    /\ llm = NoObject
    /\ task = << >>
    /\ agent = NoObject
    /\ runError = "none"
    /\ result \in { Text(o) : o \in TextsUpTo(MaxLen) }
    /\ execOutcome = "returned"
    /\ evalOutcome = "pending"
    /\ score = {}
    /\ exitCode = {}

NextEvaluator == SuccessEvaluator

SpecEvaluator == InitEvaluator /\ [][NextEvaluator]_vars

(***************************************************************************)
(* Vocabulary of the properties.                                           *)
(***************************************************************************)
\* prefix is an initial segment of s.
IsPrefix(prefix, s) ==
    Len(prefix) <= Len(s) /\ SubSeq(s, 1, Len(prefix)) = prefix

\* sub occurs in s as a contiguous block, character for character.
IsSubstring(sub, s) ==
    \E off \in 0..Len(s) :
        /\ off + Len(sub) <= Len(s)
        /\ SubSeq(s, off + 1, off + Len(sub)) = sub

KnownProviders == { OPENAI, OLLAMA, GOOGLE, GROQ }

\* The API key variable a provider key needs, "" when it needs none.
RequiredKey(provider) ==
    IF provider = OPENAI THEN "OPENAI_API_KEY"
    ELSE IF provider = GOOGLE THEN "GOOGLE_API_KEY"
    ELSE IF provider = GROQ THEN "GROQ_API_KEY"
    ELSE ""

\* The frame of run_bunnings_navigator is live (or the process ended in it).
InRun ==
    pc \in { "laminar", "patchright", "session", "llm", "format", "agent",
             "run", "returned", "raised", "exited" }

\* The run has ended: it returned or raised.
RunEnded == pc \in { "returned", "raised", "exited" }

\* The run is past the create_browser_session() statement.
PastSession == InRun /\ pc \notin { "laminar", "patchright", "session" }

\* The run is past the NAVIGATOR_TASK_TEMPLATE.format(...) statement.
Formatted == InRun /\ task # << >>

\* Pieces of the template that are the replacement field f.
Slots(f) ==
    { i \in 1..Len(NAVIGATOR_TASK_TEMPLATE) : NAVIGATOR_TASK_TEMPLATE[i].field = f }

(***************************************************************************)
(* C1: the command line program exits with status 0 when the run completed *)
(* without raising, and with status 1 when it was cancelled or raised.     *)
(***************************************************************************)
C1_ExitCode ==
    pc = "exited" => exitCode = (IF runError = "none" THEN { 0 } ELSE { 1 })

(***************************************************************************)
(* C2: a run whose provider key is none of openai, ollama, google, groq    *)
(* fails before any external step: when its error is raised no telemetry   *)
(* initialisation, driver start, session, LLM client or agent run happened.*)
(***************************************************************************)
C2_UnknownProviderFailsFast ==
    (InRun /\ pc # "laminar" /\ request.provider \notin KnownProviders)
        => /\ pc = "raised"
           /\ externalCalls = << >>

(***************************************************************************)
(* C3: a run whose provider needs an API key that is unset or empty fails  *)
(* with the configuration error before telemetry initialisation, driver    *)
(* start, LLM client construction and agent run.                           *)
(***************************************************************************)
C3_MissingKeyFailsFast ==
    (/\ InRun /\ pc # "laminar"
     /\ RequiredKey(request.provider) # ""
     /\ ~Truthy(env[RequiredKey(request.provider)]))
        => /\ pc = "raised"
           /\ runError = "EnvironmentError"
           /\ externalCalls = << >>

(***************************************************************************)
(* C4: every run that ended, by returning, raising or being cancelled,     *)
(* left no driver process behind.                                          *)
(***************************************************************************)
C4_DriverReleased ==
    (RunEnded \/ pc \in { "evaluate", "next_case" }) => driversRunning = 0

(***************************************************************************)
(* C5: every datapoint the harness has finished has a success_rate score;  *)
(* a run that raised is scored 0 and nothing was raised out of             *)
(* main_executor or success_evaluator.                                     *)
(***************************************************************************)
C5_EveryCaseScored ==
    (mode = "eval" /\ pc = "next_case" /\ caseIdx > 0)
        => /\ execOutcome # "raised"
           /\ evalOutcome = "scored"
           /\ (runError # "none" => score = { 0 })

(***************************************************************************)
(* C6: past create_browser_session, on a platform of none of the three     *)
(* families the run has raised the unsupported-OS error and built neither  *)
(* profile nor session; on a platform of a family, profile and session     *)
(* carry that family's fixed executable path.                              *)
(***************************************************************************)
FamilyPath(p) ==
    CASE IsPrefix(DARWIN, p) -> { MacBravePath }
      [] IsPrefix(WIN, p) -> { WinBravePath }
      [] IsPrefix(LINUX, p) -> { LinuxBravePath }
      [] OTHER -> {}

C6_PlatformPath ==
    PastSession =>
        IF FamilyPath(platform) = {}
        THEN /\ pc \in { "raised", "exited" }
             /\ runError = "RuntimeError"
             /\ ~browserProfile.built
             /\ ~browserSession.built
        ELSE /\ browserProfile.built
             /\ browserSession.built
             /\ { browserProfile.executable_path } = FamilyPath(platform)
             /\ { browserSession.browser_path } = FamilyPath(platform)

C6_Witness ==
    /\ pc = "raised"
    /\ runError = "RuntimeError"
    /\ FamilyPath(platform) = {}
    /\ ~browserSession.built

(***************************************************************************)
(* C7: success_evaluator returns 1 when the target occurs in the output as *)
(* a contiguous, case-sensitive block, 0 otherwise, and nothing else.      *)
(***************************************************************************)
C7_SubstringScore ==
    evalOutcome = "scored" =>
        /\ score \subseteq { 0, 1 }
        /\ score = { IF IsSubstring(target, result.text) THEN 1 ELSE 0 }

C7_Witness ==
    /\ evalOutcome = "scored"
    /\ score = { 1 }
    /\ target # << >>
    /\ result.text # target

(***************************************************************************)
(* C8: the text at the location field of the task script is the postcode   *)
(* when the postcode is non-empty, the suburb when the postcode is empty   *)
(* or None.                                                                *)
(***************************************************************************)
C8_LocationChoice ==
    Formatted =>
        \A i \in Slots("location") :
            task[i] = IF request.postcode \notin { None, "" }
                      THEN request.postcode
                      ELSE FormatValue(request.suburb_address)

C8_Witness ==
    /\ Formatted
    /\ request.postcode = ""
    /\ \E i \in Slots("location") : task[i] = "Sydney"

(***************************************************************************)
(* C9: with unit None the text at the unit field of the task script is the *)
(* empty string, never "None"; and formatting the template never fails for *)
(* want of a field.                                                        *)
(***************************************************************************)
C9_UnitEmpty ==
    /\ runError # "KeyError"
    /\ (pc \in { "agent", "run", "returned" } \/ (pc = "exited" /\ runError = "none"))
           => Formatted
    /\ (Formatted /\ request.unit = None) =>
           /\ Slots("unit") # {}
           /\ \A i \in Slots("unit") : task[i] = "" /\ task[i] # "None"

C9_Witness ==
    /\ Formatted
    /\ request.unit = None
    /\ pc = "agent"

(***************************************************************************)
(* C10: the process initialises telemetry at most once, whatever the       *)
(* number of runs.                                                         *)
(***************************************************************************)
C10_TelemetryOnce == laminarInits <= 1

====
